---- MODULE Spec2Model ----
(***************************************************************************)
(* Task-App-Project: the TaskForm modal (create / edit a task) and the     *)
(* TaskCard (quick status change, delete, overdue flag), with the remote   *)
(* task table they write to.  One component instance is followed per       *)
(* behaviour: the modal form covers the screen while it is open.           *)
(*                                                                         *)
(* Values.  A title is modelled by its length.  Optional values are tagged *)
(* tuples, so that null, the empty string, a date-only string and an ISO   *)
(* timestamp are all different values:                                     *)
(*   Null            null / undefined                                      *)
(*   Text(s)         the string s                                          *)
(*   DateStr(d)      the date-only string yyyy-mm-dd of calendar day d     *)
(*   Iso(h)          the ISO timestamp of the instant h, in hours (UTC)    *)
(***************************************************************************)
EXTENDS Integers, Sequences, FiniteSets, TLC

VARIABLES
    \* ---- TaskForm ----
    formOpen,      \* the form instance is mounted (the parent shows it)
    task,          \* prop task?: {} for null, {t} for a task
    user,          \* useAuth().user: {} for null, {u} for a user
    form,          \* react-hook-form field values
    isSubmitted,   \* react-hook-form formState.isSubmitted
    titleError,    \* formState.errors.title.message (NoError when absent)
    loading,       \* useState(false) of TaskForm
    formInflight,  \* requests of the form awaiting their response
    formToasts,    \* notifications shown by the form
    saveCalls,     \* arguments of the onSave calls
    cancelCalls,   \* number of onCancel calls
    edits,         \* number of field edits made (bounded)
    submits,       \* number of requests the form has issued (bounded)
    \* ---- TaskCard ----
    cardMounted,   \* the card instance is mounted
    cardTask,      \* prop task of the card
    updating,      \* useState(false) of TaskCard
    cardInflight,  \* requests of the card awaiting their response
    cardToasts,    \* notifications shown by the card
    updateCalls,   \* arguments of the onUpdate calls
    deleteCalls,   \* arguments of the onDelete calls
    confirms,      \* answers given to window.confirm
    selects,       \* number of status selections made (bounded)
    overdueBadge,  \* the Overdue badge as last rendered
    renderedAt,    \* the instant of the last render of the card
    \* ---- environment ----
    writes,        \* writes the remote task table has applied
    now,           \* the current instant, in hours (UTC)
    tzOffset,      \* local time minus UTC, in hours
    \* ---- Index (landing view) ----
    indexState,    \* "absent", "created" (not yet rendered), "shown", "left"
    authLoading,   \* useAuth().loading
    indexView,     \* what the last render of Index returned
    navCalls,      \* arguments of the navigate calls
    authEvents     \* number of changes of the auth context (bounded)

formVars == <<formOpen, task, user, form, isSubmitted, titleError, loading,
              formInflight, formToasts, saveCalls, cancelCalls, edits, submits>>
cardVars == <<cardMounted, cardTask, updating, cardInflight, cardToasts,
              updateCalls, deleteCalls, confirms, selects>>
renderVars == <<overdueBadge, renderedAt>>
clockVars == <<now, tzOffset>>
indexVars == <<indexState, authLoading, indexView, navCalls, authEvents>>
vars == <<formVars, cardVars, renderVars, writes, clockVars, indexVars>>

----------------------------------------------------------------------------
\* Bounds of the model.
MaxEdits == 2
MaxSubmits == 2
MaxSelects == 2
MaxDeletes == 2
MaxStamp == 2
MaxDay == 3
MaxTz == 2
MaxNow == 60
MaxAuthEvents == 2

\* Program constants.
TitleMin == 1
TitleMax == 100
HoursPerDay == 24

----------------------------------------------------------------------------
\* Values.
Null == <<"null">>
Text(s) == <<"text", s>>
DateStr(d) == <<"date", d>>
Iso(h) == <<"iso", h>>

Statuses == {"pending", "in_progress", "completed"}
Priorities == {"low", "medium", "high"}

\* JavaScript truthiness of an optional string.
Truthy(v) == v # Null /\ v # Text("")

\* new Date(s): a date-only string is parsed as midnight UTC of that day, an
\* ISO timestamp as its instant.  The result is the instant in hours.
NewDate(s) == IF s[1] = "date" THEN s[2] * HoursPerDay ELSE s[2]

\* Date.prototype.toISOString()
ToISOString(h) == Iso(h)

\* isoString.split('T')[0]: the UTC calendar day of the timestamp.
SplitT0(iso) == DateStr(iso[2] \div HoursPerDay)

----------------------------------------------------------------------------
\* TaskForm: schema, default values, payload.

NoError == "none"

\* TitleMessage without the check of the upper length.
TitleMessageNoMax(len) == IF len < TitleMin THEN "Title is required" ELSE NoError

\* taskSchema.title: z.string().min(1, ...).max(100, ...); the message of the
\* first failing check, NoError when the title passes.
TitleMessage(len) ==
    IF len < TitleMin THEN "Title is required"
    ELSE IF len > TitleMax THEN "Title must be less than 100 characters"
    ELSE NoError

\* taskSchema: whether the form data passes every field's check.
SchemaOk(data) ==
    /\ TitleMessage(data.title) = NoError
    /\ data.description[1] = "text"
    /\ data.status \in Statuses
    /\ data.priority \in Priorities
    /\ data.due_date[1] \in {"text", "date"}

HasTask == task # {}
TheTask == CHOOSE t \in task : TRUE
TheUser == CHOOSE u \in user : TRUE

\* useForm defaultValues, from the task prop.
DefaultValues(tk) ==
    IF tk = {} THEN
        [title |-> 0, description |-> Text(""), status |-> "pending",
         priority |-> "medium", due_date |-> Text("")]
    ELSE LET t == CHOOSE x \in tk : TRUE IN
        [title |-> t.title,
         description |-> IF Truthy(t.description) THEN t.description ELSE Text(""),
         status |-> t.status,
         priority |-> t.priority,
         due_date |-> IF Truthy(t.due_date)
                      THEN SplitT0(ToISOString(NewDate(t.due_date)))
                      ELSE Text("")]

\* The due_date a submission writes for the value of the date field.
PayloadDueDate(v) == IF Truthy(v) THEN ToISOString(NewDate(v)) ELSE Null

\* PayloadDescription without the normalisation of the empty string.
PayloadDescriptionAsEntered(v) == v

\* The description a submission writes for the value of the description field.
PayloadDescription(v) == IF Truthy(v) THEN v ELSE Null

\* taskData of handleSubmit.
TaskData(data, u) ==
    [title |-> data.title,
     description |-> PayloadDescription(data.description),
     status |-> data.status,
     priority |-> data.priority,
     due_date |-> PayloadDueDate(data.due_date),
     user_id |-> u]

\* The request handleSubmit issues: update by id when a task was supplied,
\* insert otherwise.
FormRequest(data) ==
    IF HasTask
    THEN [op |-> "update", id |-> TheTask.id, data |-> TaskData(data, TheUser)]
    ELSE [op |-> "insert", id |-> "", data |-> TaskData(data, TheUser)]

\* The identifier the task table assigns to an inserted row.
NewId == "t2"

\* The row the task table returns for a write it has applied.
ServerRow(req, base, stamp) ==
    [f \in DOMAIN base \cup DOMAIN req.data \cup {"id", "updated_at"} |->
        IF f = "id" THEN (IF req.op = "insert" THEN NewId ELSE req.id)
        ELSE IF f = "updated_at" THEN stamp
        ELSE IF f \in DOMAIN req.data THEN req.data[f]
        ELSE base[f]]

SuccessToast(text) == [title |-> "Success", description |-> text, variant |-> "default"]

\* ErrorToast without the fallback text.
ErrorToastNoFallback(message, fallback) ==
    [title |-> "Error", description |-> message, variant |-> "destructive"]

ErrorToast(message, fallback) ==
    [title |-> "Error",
     description |-> IF message # "" THEN message ELSE fallback,
     variant |-> "destructive"]

\* A submit button that is never disabled.
SubmitNeverDisabled == FALSE

\* The submit button: disabled={loading} and its label.
SubmitDisabled == loading
SubmitLabel ==
    IF loading THEN "Saving..." ELSE IF HasTask THEN "Update Task" ELSE "Create Task"

----------------------------------------------------------------------------
\* The callbacks of the parent list controller.

\* onSave of the parent: the form is closed.
ParentOnSave == FALSE

\* onCancel of the parent: the form is closed.
ParentOnCancel == FALSE

\* onUpdate of the parent: the card is rendered with the record it was given.
ParentOnUpdate(record) == record

----------------------------------------------------------------------------
\* TaskForm: the user's actions and the responses.

TitleLens == {0, TitleMin, TitleMax, TitleMax + 1}
Descriptions == {Text(""), Text("notes")}
DateValues == {Text("")} \cup {DateStr(d) : d \in 0..MaxDay}
ErrorMessages == {"", "network error"}
Stamps == 1..MaxStamp

\* react-hook-form re-validates a field on change once the form was submitted.
Revalidated(data) == IF isSubmitted THEN TitleMessage(data.title) ELSE titleError

EditField(data) ==
    /\ formOpen
    /\ edits < MaxEdits
    /\ data # form
    /\ form' = data
    /\ titleError' = Revalidated(data)
    /\ edits' = edits + 1
    /\ UNCHANGED <<formOpen, task, user, isSubmitted, loading, formInflight,
                   formToasts, saveCalls, cancelCalls, submits>>
    /\ UNCHANGED <<cardVars, renderVars, writes, clockVars, indexVars>>

EditTitle == \E n \in TitleLens : EditField([form EXCEPT !.title = n])
EditDescription == \E d \in Descriptions : EditField([form EXCEPT !.description = d])
EditStatus == \E v \in Statuses : EditField([form EXCEPT !.status = v])
EditPriority == \E v \in Priorities : EditField([form EXCEPT !.priority = v])
EditDueDate == \E v \in DateValues : EditField([form EXCEPT !.due_date = v])

\* Whether handleSubmit goes on to issue its request.
Issues(data) == SchemaOk(data) /\ user # {}

\* The state of loading once handleSubmit has reached its await.
LoadingAtAwait == TRUE

\* The submit button is clicked: form.handleSubmit(handleSubmit) validates
\* the data with the schema, and calls handleSubmit when they pass; it runs
\* up to its await.
Submit ==
    /\ formOpen
    /\ ~SubmitDisabled
    /\ isSubmitted' = TRUE
    /\ titleError' = TitleMessage(form.title)
    /\ IF Issues(form)
       THEN /\ submits < MaxSubmits
            /\ submits' = submits + 1
            /\ loading' = LoadingAtAwait
            /\ formInflight' = Append(formInflight, FormRequest(form))
       ELSE UNCHANGED <<submits, loading, formInflight>>
    /\ UNCHANGED <<formOpen, task, user, form, formToasts, saveCalls,
                   cancelCalls, edits>>
    /\ UNCHANGED <<cardVars, renderVars, writes, clockVars, indexVars>>

\* onSave given the data the form sent instead of the row returned.
SaveLocalData(row, req) == req.data

\* The record handleSubmit passes to onSave.
SaveArgument(row, req) == row

\* The text of the success notification.
SavedText == IF HasTask THEN "Task updated successfully" ELSE "Task created successfully"

\* handleSubmit without its finally block.
LoadingNotReset == loading

\* The state of loading when handleSubmit has finished.
LoadingAtEnd == FALSE

\* The awaited call resolves with a row: lines 82-87 / 96-101, then finally.
FormRespondOk ==
    /\ formInflight # <<>>
    /\ \E stamp \in Stamps :
         LET req == Head(formInflight)
             row == ServerRow(req, <<>>, stamp)
         IN /\ writes' = Append(writes, req)
            /\ saveCalls' = Append(saveCalls, SaveArgument(row, req))
            /\ formOpen' = (formOpen /\ ParentOnSave)
            /\ formToasts' = Append(formToasts, SuccessToast(SavedText))
    /\ formInflight' = Tail(formInflight)
    /\ loading' = LoadingAtEnd
    /\ UNCHANGED <<task, user, form, isSubmitted, titleError, cancelCalls,
                   edits, submits>>
    /\ UNCHANGED <<cardVars, renderVars, clockVars, indexVars>>

\* The awaited call resolves with an error: the catch block, then finally.
FormRespondErr ==
    /\ formInflight # <<>>
    /\ \E m \in ErrorMessages :
         formToasts' = Append(formToasts, ErrorToast(m, "Failed to save task"))
    /\ formInflight' = Tail(formInflight)
    /\ loading' = LoadingAtEnd
    /\ UNCHANGED <<formOpen, task, user, form, isSubmitted, titleError,
                   saveCalls, cancelCalls, edits, submits>>
    /\ UNCHANGED <<cardVars, renderVars, writes, clockVars, indexVars>>

\* The Cancel button or the close button is clicked: onCancel.
Cancel ==
    /\ formOpen
    /\ cancelCalls' = cancelCalls + 1
    /\ formOpen' = ParentOnCancel
    /\ UNCHANGED <<task, user, form, isSubmitted, titleError, loading,
                   formInflight, formToasts, saveCalls, edits, submits>>
    /\ UNCHANGED <<cardVars, renderVars, writes, clockVars, indexVars>>

----------------------------------------------------------------------------
\* TaskCard.

\* today.setHours(0, 0, 0, 0): the instant of the last local midnight.
TodayMidnight ==
    ((now + tzOffset) \div HoursPerDay) * HoursPerDay - tzOffset

\* isOverdue of the card rendering task t.
isOverdue(t, dueDateString) ==
    IF ~Truthy(dueDateString) THEN FALSE
    ELSE NewDate(dueDateString) < TodayMidnight /\ t.status # "completed"

\* The Overdue badge of a render of task t.
Badge(t) == Truthy(t.due_date) /\ isOverdue(t, t.due_date)

\* The status selector: disabled={updating}.
SelectDisabled == updating

\* A quick status update that writes the card's other fields too.
StatusPayloadWholeTask(newStatus) ==
    [status |-> newStatus, title |-> cardTask.title, priority |-> cardTask.priority]

\* The payload of the quick status update.
StatusPayload(newStatus) == [status |-> newStatus]

\* The state of updating when handleStatusChange has finished.
UpdatingAtEnd == FALSE

\* A status is selected: handleStatusChange up to its await.
StatusSelect ==
    /\ cardMounted
    /\ ~SelectDisabled
    /\ selects < MaxSelects
    /\ \E newStatus \in Statuses :
         cardInflight' = Append(cardInflight,
             [op |-> "update", id |-> cardTask.id, data |-> StatusPayload(newStatus)])
    /\ updating' = TRUE
    /\ selects' = selects + 1
    /\ overdueBadge' = Badge(cardTask)
    /\ renderedAt' = now
    /\ UNCHANGED <<cardMounted, cardTask, cardToasts, updateCalls, deleteCalls, confirms>>
    /\ UNCHANGED <<formVars, writes, clockVars, indexVars>>

\* The record handleStatusChange passes to onUpdate.
UpdateArgument(row, req) == row

\* The awaited update resolves with a row: lines 80-86, then finally.
CardRespondOk ==
    /\ cardInflight # <<>>
    /\ \E stamp \in Stamps :
         LET req == Head(cardInflight)
             row == ServerRow(req, cardTask, stamp)
             arg == UpdateArgument(row, req)
         IN /\ writes' = Append(writes, req)
            /\ updateCalls' = Append(updateCalls, arg)
            /\ cardTask' = ParentOnUpdate(arg)
            /\ overdueBadge' = Badge(ParentOnUpdate(arg))
    /\ cardToasts' = Append(cardToasts, SuccessToast("Task status updated successfully"))
    /\ cardInflight' = Tail(cardInflight)
    /\ updating' = UpdatingAtEnd
    /\ renderedAt' = now
    /\ UNCHANGED <<cardMounted, deleteCalls, confirms, selects>>
    /\ UNCHANGED <<formVars, clockVars, indexVars>>

\* The awaited update resolves with an error: the catch block, then finally.
CardRespondErr ==
    /\ cardInflight # <<>>
    /\ \E m \in ErrorMessages :
         cardToasts' = Append(cardToasts, ErrorToast(m, "Failed to update task status"))
    /\ cardInflight' = Tail(cardInflight)
    /\ updating' = UpdatingAtEnd
    /\ overdueBadge' = Badge(cardTask)
    /\ renderedAt' = now
    /\ UNCHANGED <<cardMounted, cardTask, updateCalls, deleteCalls, confirms, selects>>
    /\ UNCHANGED <<formVars, writes, clockVars, indexVars>>

\* handleDelete ignoring the answer to the prompt.
DeletesUnasked(answer) == TRUE

\* Whether handleDelete calls onDelete, given the answer to window.confirm.
Deletes(answer) == answer

\* The Delete menu item is clicked: handleDelete, with the user's answer to
\* the confirmation prompt.
HandleDelete ==
    /\ cardMounted
    /\ Len(confirms) < MaxDeletes
    /\ \E answer \in BOOLEAN :
         /\ confirms' = Append(confirms, answer)
         /\ deleteCalls' = IF Deletes(answer)
                           THEN Append(deleteCalls, cardTask.id)
                           ELSE deleteCalls
    /\ UNCHANGED <<cardMounted, cardTask, updating, cardInflight, cardToasts,
                   updateCalls, selects>>
    /\ UNCHANGED <<formVars, renderVars, writes, clockVars, indexVars>>

\* The card is rendered again (its parent re-renders).
CardRender ==
    /\ cardMounted
    /\ renderedAt # now
    /\ overdueBadge' = Badge(cardTask)
    /\ renderedAt' = now
    /\ UNCHANGED <<formVars, cardVars, writes, clockVars, indexVars>>

\* Time passes.
Tick ==
    /\ now < MaxNow
    /\ now' = now + 1
    /\ UNCHANGED <<formVars, cardVars, renderVars, writes, tzOffset, indexVars>>

----------------------------------------------------------------------------
\* Index (the landing view).

Users == {{}, {"u1"}, {"u2"}}

\* What Index returns: the spinner while loading, else the marketing page.
IndexRender(l) == IF l THEN "spinner" ELSE "marketing"

\* An effect that redirects without looking at the user.
EffectNavigatesAnyone(l, u) == ~l

\* The condition of the effect: if (!loading && user).
EffectNavigates(l, u) == ~l /\ u # {}

\* The route of the Get Started and Sign In buttons.
CtaTarget == "/auth"

\* navigate(path): the route changes and Index is left.
Navigate(path) ==
    /\ navCalls' = Append(navCalls, path)
    /\ indexState' = "left"

\* A render of Index with loading l and user u, then its effect.
RenderAndEffect(l, u) ==
    /\ indexView' = IndexRender(l)
    /\ IF EffectNavigates(l, u)
       THEN Navigate("/dashboard")
       ELSE /\ navCalls' = navCalls
            /\ indexState' = "shown"

\* Index is mounted: the first render and the effect.
IndexMount ==
    /\ indexState = "created"
    /\ RenderAndEffect(authLoading, user)
    /\ UNCHANGED <<authLoading, authEvents, user>>
    /\ UNCHANGED <<formOpen, task, form, isSubmitted, titleError, loading,
                   formInflight, formToasts, saveCalls, cancelCalls, edits, submits>>
    /\ UNCHANGED <<cardVars, renderVars, writes, clockVars>>

\* The auth context changes (the check resolves, a user signs in or out):
\* Index renders again and, user or loading having changed, its effect runs.
AuthChange ==
    /\ indexState = "shown"
    /\ authEvents < MaxAuthEvents
    /\ \E l \in BOOLEAN, u \in Users :
         /\ l => authLoading
         /\ <<l, u>> # <<authLoading, user>>
         /\ authLoading' = l
         /\ user' = u
         /\ RenderAndEffect(l, u)
    /\ authEvents' = authEvents + 1
    /\ UNCHANGED <<formOpen, task, form, isSubmitted, titleError, loading,
                   formInflight, formToasts, saveCalls, cancelCalls, edits, submits>>
    /\ UNCHANGED <<cardVars, renderVars, writes, clockVars>>

\* A hero button is clicked; the buttons exist in the marketing page only.
ClickCta ==
    /\ indexState = "shown"
    /\ indexView = "marketing"
    /\ Navigate(CtaTarget)
    /\ UNCHANGED <<authLoading, indexView, authEvents, user>>
    /\ UNCHANGED <<formOpen, task, form, isSubmitted, titleError, loading,
                   formInflight, formToasts, saveCalls, cancelCalls, edits, submits>>
    /\ UNCHANGED <<cardVars, renderVars, writes, clockVars>>

ClickGetStarted == ClickCta
ClickSignIn == ClickCta

----------------------------------------------------------------------------
\* Initial states.

\* No landing view is followed.
IndexAbsent ==
    /\ indexState = "absent"
    /\ authLoading = FALSE
    /\ indexView = "none"
    /\ navCalls = <<>>
    /\ authEvents = 0

\* Tasks a form can be opened on.
FormTasks ==
    { [id |-> "t1", title |-> TitleMin, description |-> Text("notes"),
       status |-> "in_progress", priority |-> "high",
       due_date |-> Iso(HoursPerDay), updated_at |-> 0],
      [id |-> "t1", title |-> TitleMax, description |-> Null,
       status |-> "archived", priority |-> "low",
       due_date |-> Null, updated_at |-> 0] }

\* Due dates as the form writes them, and none.
DueDates == {Null} \cup {PayloadDueDate(DateStr(d)) : d \in 0..MaxDay}

\* Tasks a card can show.
CardTasks ==
    { [id |-> "t1", title |-> TitleMin, description |-> Null, status |-> s,
       priority |-> "medium", due_date |-> d, user_id |-> "u1", updated_at |-> 0] :
      s \in Statuses, d \in DueDates }

ClockStart == HoursPerDay

FormIdle ==
    /\ isSubmitted = FALSE
    /\ titleError = NoError
    /\ loading = FALSE
    /\ formInflight = <<>>
    /\ formToasts = <<>>
    /\ saveCalls = <<>>
    /\ cancelCalls = 0
    /\ edits = 0
    /\ submits = 0

CardIdle ==
    /\ updating = FALSE
    /\ cardInflight = <<>>
    /\ cardToasts = <<>>
    /\ updateCalls = <<>>
    /\ deleteCalls = <<>>
    /\ confirms = <<>>
    /\ selects = 0
    /\ overdueBadge = Badge(cardTask)
    /\ renderedAt = now

\* A TaskForm is mounted.
InitForm ==
    /\ formOpen = TRUE
    /\ task \in {{}} \cup {{t} : t \in FormTasks}
    /\ user \in {{}, {"u1"}}
    /\ form = DefaultValues(task)
    /\ FormIdle
    /\ cardMounted = FALSE
    /\ cardTask \in {t \in CardTasks : t.status = "pending" /\ t.due_date = Null}
    /\ CardIdle
    /\ IndexAbsent

\* A TaskCard is mounted.
InitCard ==
    /\ formOpen = FALSE
    /\ task = {}
    /\ user = {"u1"}
    /\ form = DefaultValues({})
    /\ FormIdle
    /\ cardMounted = TRUE
    /\ cardTask \in CardTasks
    /\ CardIdle
    /\ IndexAbsent

\* An Index is created, in any state of the auth context.
InitIndex ==
    /\ formOpen = FALSE
    /\ task = {}
    /\ user \in Users
    /\ form = DefaultValues({})
    /\ FormIdle
    /\ cardMounted = FALSE
    /\ cardTask \in {t \in CardTasks : t.status = "pending" /\ t.due_date = Null}
    /\ CardIdle
    /\ indexState = "created"
    /\ authLoading \in BOOLEAN
    /\ indexView = "none"
    /\ navCalls = <<>>
    /\ authEvents = 0

Init ==
    /\ now = ClockStart
    /\ tzOffset = 0
    /\ writes = <<>>
    /\ InitForm \/ InitCard \/ InitIndex

Next ==
    \/ EditTitle
    \/ EditDescription
    \/ EditStatus
    \/ EditPriority
    \/ EditDueDate
    \/ Submit
    \/ FormRespondOk
    \/ FormRespondErr
    \/ Cancel
    \/ StatusSelect
    \/ CardRespondOk
    \/ CardRespondErr
    \/ HandleDelete
    \/ IndexMount
    \/ AuthChange
    \/ ClickGetStarted
    \/ ClickSignIn

Spec == Init /\ [][Next]_vars

\* The overdue flag over due dates, statuses, clocks and time zones.
InitOverdue ==
    /\ now = ClockStart
    /\ tzOffset \in (0 - MaxTz)..MaxTz
    /\ writes = <<>>
    /\ InitCard

NextOverdue ==
    \/ Tick
    \/ CardRender

SpecOverdue == InitOverdue /\ [][NextOverdue]_vars

----------------------------------------------------------------------------
\* Properties.

Last(q) == q[Len(q)]

\* A step in which the form issues a request.
FormIssues == Len(formInflight') > Len(formInflight)
\* A step in which a request of the form is answered with a row / an error.
FormAnswered == Len(formInflight') < Len(formInflight)
FormSucceeds == FormAnswered /\ writes' # writes
FormFails == FormAnswered /\ writes' = writes
\* The same for the card.
CardIssues == Len(cardInflight') > Len(cardInflight)
CardAnswered == Len(cardInflight') < Len(cardInflight)
CardSucceeds == CardAnswered /\ writes' # writes
CardFails == CardAnswered /\ writes' = writes

\* C1: a TaskForm instance and a TaskCard instance each have at most one
\* request issued and not yet answered, and a request is issued only when
\* none is outstanding and the triggering control is enabled.
C1_AtMostOneInFlight ==
    /\ [](Len(formInflight) <= 1 /\ Len(cardInflight) <= 1)
    /\ [][FormIssues => (formInflight = <<>> /\ ~loading)]_vars
    /\ [][CardIssues => (cardInflight = <<>> /\ ~updating)]_vars

\* C1 witness: the form has issued its second request, after the first one
\* was answered, and that request is outstanding.
C1_Witness == submits = 2 /\ Len(formInflight) = 1 /\ Len(formToasts) = 1

\* C2: the form starts idle; the submit control is disabled and shows the
\* busy label exactly while a submission awaits its response; a submission
\* starts from idle only; and every response leaves the submitting state,
\* a row through the save callback, an error with an error notification.
C2_FormStateMachine ==
    /\ (~loading /\ formInflight = <<>>)
    /\ [](/\ loading <=> (formInflight # <<>>)
          /\ SubmitDisabled <=> (formInflight # <<>>)
          /\ (SubmitLabel = "Saving...") <=> (formInflight # <<>>))
    /\ [][FormAnswered => (/\ ~loading'
                           /\ formInflight' = <<>>
                           /\ FormSucceeds => Len(saveCalls') = Len(saveCalls) + 1
                           /\ FormFails => /\ Last(formToasts').title = "Error"
                                           /\ formOpen' = formOpen
                                           /\ saveCalls' = saveCalls)]_vars

\* C2 witness: a submission failed and the form is idle again, open, with
\* the error shown.
C2_Witness ==
    /\ formOpen /\ ~loading /\ submits = 1 /\ formInflight = <<>>
    /\ Len(formToasts) = 1 /\ formToasts[1].title = "Error"

\* C3: a request is issued only for data that pass the schema; submitting an
\* empty title issues nothing and shows "Title is required"; submitting a
\* title of 101 characters issues nothing and shows the length message.
C3_ValidatedBeforeRequest ==
    /\ [][FormIssues => /\ form.title \in TitleMin..TitleMax
                        /\ form.status \in Statuses
                        /\ form.priority \in Priorities]_vars
    /\ [][(Submit /\ form.title = 0) =>
             /\ formInflight' = formInflight
             /\ titleError' = "Title is required"]_vars
    /\ [][(Submit /\ form.title = TitleMax + 1) =>
             /\ formInflight' = formInflight
             /\ titleError' = "Title must be less than 100 characters"]_vars

\* C3 witness: a signed-in user has submitted an empty title; nothing was
\* sent and the message is shown.
C3_Witness ==
    /\ user # {} /\ isSubmitted /\ form.title = 0
    /\ titleError = "Title is required" /\ submits = 0 /\ formInflight = <<>>

\* C4: when a submission succeeds the save callback is called once, with the
\* row the task table returned, and the success notification says "created"
\* when no task was supplied and "updated" when one was; the save callback
\* is called in no other step.
C4_SaveGetsServerRecord ==
    [][/\ FormSucceeds =>
            /\ \E stamp \in Stamps :
                 saveCalls' = Append(saveCalls, ServerRow(Head(formInflight), <<>>, stamp))
            /\ Len(formToasts') = Len(formToasts) + 1
            /\ Last(formToasts').title = "Success"
            /\ Last(formToasts').description =
                 (IF task = {} THEN "Task created successfully"
                               ELSE "Task updated successfully")
       /\ (saveCalls' # saveCalls) => FormSucceeds]_vars

\* C4 witness: a create has succeeded.
C4_Witness ==
    /\ task = {} /\ Len(saveCalls) = 1 /\ saveCalls[1].id = NewId
    /\ Last(formToasts).description = "Task created successfully"

\* C5: when a submission fails the save callback is not called, a
\* notification titled "Error" carries the failure's message or the
\* fallback, the form stays open with its field values, the submit control
\* is enabled, and no request is issued.
C5_FailureLeavesFormForRetry ==
    [][FormFails =>
         /\ saveCalls' = saveCalls
         /\ Len(formToasts') = Len(formToasts) + 1
         /\ Last(formToasts').title = "Error"
         /\ Last(formToasts').description \in {"network error", "Failed to save task"}
         /\ form' = form
         /\ formOpen' = formOpen
         /\ ~SubmitDisabled'
         /\ formInflight' = <<>>
         /\ submits' = submits]_vars

\* C5 witness: an update has failed with no message; the form is open with
\* the values the user entered, and the submit control is enabled.
C5_Witness ==
    /\ task # {} /\ formOpen /\ ~SubmitDisabled /\ saveCalls = <<>>
    /\ form # DefaultValues(task)
    /\ Len(formToasts) = 1
    /\ formToasts[1] = [title |-> "Error", description |-> "Failed to save task",
                        variant |-> "destructive"]

\* C6: a status selection disables the selector and issues one update for
\* the card's task id whose payload holds the status field only; a row in
\* answer is passed once to the update callback; an error in answer shows an
\* error notification, calls no update callback and leaves the task shown;
\* either answer enables the selector again.
C6_QuickStatusChange ==
    /\ [][CardIssues =>
            /\ SelectDisabled'
            /\ Len(cardInflight') = 1
            /\ cardInflight'[1].op = "update"
            /\ cardInflight'[1].id = cardTask.id
            /\ DOMAIN cardInflight'[1].data = {"status"}
            /\ cardInflight'[1].data.status \in Statuses]_vars
    /\ [][CardSucceeds =>
            /\ \E stamp \in Stamps :
                 updateCalls' = Append(updateCalls, ServerRow(Head(cardInflight), cardTask, stamp))
            /\ Last(writes').data = Head(cardInflight).data
            /\ ~SelectDisabled']_vars
    /\ [][CardFails =>
            /\ Last(cardToasts').title = "Error"
            /\ Len(cardToasts') = Len(cardToasts) + 1
            /\ updateCalls' = updateCalls
            /\ cardTask' = cardTask
            /\ ~SelectDisabled']_vars
    /\ [][(updateCalls' # updateCalls) => CardSucceeds]_vars

\* C6 witness: one status change has failed and one has succeeded.
C6_Witness ==
    /\ selects = 2 /\ ~updating /\ Len(updateCalls) = 1 /\ Len(cardToasts) = 2
    /\ cardToasts[1].title = "Error" /\ cardToasts[2].title = "Success"
    /\ cardTask.status = "completed" /\ cardTask.updated_at # 0

\* C7: once the user has cancelled, no record is written with the form's
\* data and the save callback is not called.
C7_CancelDiscards ==
    [][cancelCalls > 0 => (saveCalls' = saveCalls /\ writes' = writes)]_vars

\* C8: isOverdue is true exactly when the task has a due date, the day of
\* that due date is earlier than the local day of today, and the task is not
\* completed.
DueDay(due) == due[2] \div HoursPerDay
LocalToday == (now + tzOffset) \div HoursPerDay
C8_OverdueIffBeforeToday ==
    cardMounted =>
        (isOverdue(cardTask, cardTask.due_date) <=>
            /\ cardTask.due_date # Null
            /\ DueDay(cardTask.due_date) < LocalToday
            /\ cardTask.status # "completed")

\* C9: the payload of a submission has description and due_date null, never
\* the empty string, when the field is empty, and the value entered
\* otherwise; it carries the user's identifier; with no user nothing is sent.
C9_PayloadNormalised ==
    [][/\ FormIssues =>
            LET p == Last(formInflight').data IN
            /\ p.description # Text("") /\ p.due_date # Text("")
            /\ (form.description = Text("")) => (p.description = Null)
            /\ (form.description # Text("")) => (p.description = form.description)
            /\ (form.due_date = Text("")) => (p.due_date = Null)
            /\ (form.due_date # Text("")) =>
                 /\ p.due_date[1] = "iso"
                 /\ p.due_date[2] = form.due_date[2] * HoursPerDay
                 /\ SplitT0(p.due_date) = form.due_date
            /\ user # {} /\ p.user_id \in user
            /\ p.title = form.title /\ p.status = form.status
            /\ p.priority = form.priority
       /\ (user = {}) => (formInflight' = formInflight /\ ~loading')]_vars

\* C9 witness: a create is in flight with no description, a due date and
\* the user's identifier.
C9_Witness ==
    /\ task = {} /\ Len(formInflight) = 1
    /\ formInflight[1].op = "insert"
    /\ formInflight[1].data.description = Null
    /\ formInflight[1].data.due_date = Iso(2 * HoursPerDay)
    /\ formInflight[1].data.user_id = "u1"

\* C10: the delete callback is called only in a step in which the user
\* answers the prompt with yes, then once with the card's task id; an answer
\* of no calls nothing and changes nothing.
C10_DeleteOnlyAfterConfirm ==
    /\ [](Len(deleteCalls) = Cardinality({i \in DOMAIN confirms : confirms[i]}))
    /\ [][(deleteCalls' # deleteCalls) =>
             /\ Len(confirms') = Len(confirms) + 1
             /\ Last(confirms') = TRUE
             /\ deleteCalls' = Append(deleteCalls, cardTask.id)]_vars
    /\ [][(Len(confirms') > Len(confirms) /\ ~Last(confirms')) =>
             /\ deleteCalls' = deleteCalls
             /\ UNCHANGED <<cardTask, updating, cardInflight, cardToasts,
                            updateCalls, writes>>]_vars

\* C10 witness: the user has declined once and confirmed once.
C10_Witness == confirms = <<FALSE, TRUE>> /\ deleteCalls = <<"t1">>

\* A step in which Index calls navigate.
IndexNavigates == navCalls' # navCalls

\* C11: while the auth check is pending Index shows the spinner and has not
\* navigated; once it has resolved, Index has navigated to /dashboard exactly
\* when there is a user, and otherwise shows the marketing page, whose
\* buttons navigate to /auth only; no step of Index writes to the task table
\* or issues a request.
C11_LandingView ==
    /\ []((indexState \in {"shown", "left"} /\ authLoading) =>
             (indexView = "spinner" /\ navCalls = <<>>))
    /\ []((indexState \in {"shown", "left"} /\ ~authLoading /\ user # {}) =>
             (navCalls = <<"/dashboard">> /\ indexState = "left"))
    /\ []((indexState \in {"shown", "left"} /\ ~authLoading /\ user = {}) =>
             (indexView = "marketing" /\ navCalls \in {<<>>, <<"/auth">>}))
    /\ [][IndexNavigates =>
            /\ navCalls' = Append(navCalls, Last(navCalls'))
            /\ ~authLoading'
            /\ (Last(navCalls') = "/dashboard") <=> (user' # {})
            /\ (Last(navCalls') = "/auth") <=> (user' = {})
            /\ (Last(navCalls') = "/auth") =>
                   (indexView = "marketing" /\ indexState = "shown")]_vars
    /\ [][(indexState # "absent") =>
            /\ writes' = writes
            /\ formInflight' = formInflight
            /\ cardInflight' = cardInflight]_vars

\* C11 witness: the check was pending with the spinner shown, resolved with
\* no user, and after a sign-in Index has navigated to the dashboard.
C11_Witness ==
    /\ indexState = "left" /\ authEvents = 2 /\ user # {}
    /\ navCalls = <<"/dashboard">> /\ indexView = "marketing"

====
